---- MODULE Spec2Model ----
(***************************************************************************)
(* A model of eagle_brd_tools.py: the in-memory board model (primitives,   *)
(* packages, libraries, elements, signals, the board file) and its         *)
(* serialisation and bill-of-materials operations.                         *)
(*                                                                         *)
(* Every method call is one action.  The variable  call  holds the last    *)
(* call made, ret  what it returned or raised, and  hist  the mutating     *)
(* calls that succeeded so far, in the order they were made.               *)
(***************************************************************************)
EXTENDS Integers, Sequences, FiniteSets, TLC

VARIABLES
    piece_dict,   \* LibraryPackage.piece_dict, per package: a Python dict
    library,      \* LibraryPackage.library, per package: the back-reference
    call,         \* the last call: [op, target, arg]
    ret,          \* its outcome: [exc, val]
    hist,         \* the successful mutating calls so far
    padObj,       \* the Pad a caller holds: its attributes, once constructed
    elemObj,      \* the Element objects: their attributes, once constructed
    sigObj,       \* the Signal objects: their attributes, once constructed
    packages,     \* Library.packages, per library
    plain,        \* BrdFile.plain
    libraries,    \* BrdFile.libraries
    elements,     \* BrdFile.elements
    signals       \* BrdFile.signals

vars == <<piece_dict, library, call, ret, hist, padObj, elemObj, sigObj,
          packages, plain, libraries, elements, signals>>

(***************************************************************************)
(* Bounds.                                                                 *)
(***************************************************************************)
MaxPieces == 3
MaxDiameter == 2
MaxCoord == 1
MaxOffset == 2
MaxContacts == 3
MaxAdds == 3

(***************************************************************************)
(* Python values.                                                          *)
(***************************************************************************)
None == "None"

Returned(v) == [exc |-> "none", val |-> v]
Raised(e) == [exc |-> e, val |-> <<>>]

\* KeyError(key): what a dict lookup of an absent key raises.
KeyError(key) == [exc |-> "KeyError", val |-> <<key>>]

Call(op, target, arg) == [op |-> op, target |-> target, arg |-> arg]

NoCall == Call("init", None, None)

\* No Pad constructed yet.
NoPad == [made |-> FALSE, diameter |-> 0, thermals |-> FALSE, first |-> FALSE]

\* No Element, no Signal constructed yet.
NoElem ==
    [made |-> FALSE, name |-> None, package |-> None, package_name |-> None,
     library |-> None, library_urn |-> None, x |-> 0, y |-> 0, rotation |-> 0,
     mirror |-> FALSE]

NoSig == [made |-> FALSE, name |-> None, elems |-> <<>>, layer |-> 0]

Elems == {"E1", "E2", "E3"}
Sigs == {"S1", "S2", "S3"}

\* The board's collections, and what an action on a package, on the Pad, on
\* the elements and signals, and on the board and its libraries leaves alone.
brdVars == <<packages, plain, libraries, elements, signals>>
pkgFrame == <<padObj, elemObj, sigObj, brdVars>>
padFrame == <<piece_dict, library, hist, elemObj, sigObj, brdVars>>
geomFrame == <<piece_dict, library, hist, padObj, brdVars>>
brdFrame == <<piece_dict, hist, padObj, elemObj, sigObj>>

(***************************************************************************)
(* Numbers as text.  A text is the sequence of its characters.  A number   *)
(* is  w + t * 2^-64  with w and t integers (see Floating point below);    *)
(* an int, or a float that is a whole number, has t = 0.                   *)
(***************************************************************************)
DigitChars == <<"0", "1", "2", "3", "4", "5", "6", "7", "8", "9">>

\* The decimal digits of n >= 0.
RECURSIVE Digits(_)
Digits(n) ==
    IF n < 10 THEN <<DigitChars[n + 1]>>
    ELSE Append(Digits(n \div 10), DigitChars[(n % 10) + 1])

\* '{:.5f}'.format(v): v rounded to 5 decimals, always 5 digits after the
\* point.  |t * 2^-64| is far below 0.000005, so the rounded value is w; a
\* value just below zero is written '-0.00000'.
Fixed5(w, t) ==
    (IF w < 0 \/ (w = 0 /\ t < 0) THEN <<"-">> ELSE <<>>)
        \o Digits(IF w < 0 THEN 0 - w ELSE w)
        \o <<".", "0", "0", "0", "0", "0">>

\* '{}'.format(v) of a float v: str(v), the shortest text that reads back
\* as v.  A whole number is written with one 0 after the point ('10.0'); a
\* value off the whole numbers takes 16 or 17 significant digits, and none
\* is serialised in the runs below.
StrFloat(w, t) ==
    CASE t = 0 ->
        (IF w < 0 THEN <<"-">> ELSE <<>>)
            \o Digits(IF w < 0 THEN 0 - w ELSE w)
            \o <<".", "0">>

(***************************************************************************)
(* The objects of a run.  A primitive is a record of its fields; id tells  *)
(* two objects with equal fields apart.  A Hole passes None as its name to *)
(* Part.__init__.                                                          *)
(***************************************************************************)
Packages == {"P1", "P2"}
Libraries == {"L1", "L2"}

LibVersion(l) == IF l = "L1" THEN 1 ELSE 2

Pad(id, name, x, y) == [id |-> id, kind |-> "Pad", name |-> name, x |-> x, y |-> y]
Hole(id, x, y) == [id |-> id, kind |-> "Hole", name |-> None, x |-> x, y |-> y]

Pieces ==
    { Pad("padA", "1", 1, 0), Pad("padB", "2", 0, 1), Pad("padC", "1", 2, 0),
      Hole("holeA", 0, 0), Hole("holeB", 3, 3) }

PieceById(id) == CHOOSE p \in Pieces : p.id = id

\* The placeholder '' that get_str fills pieces_sort with.
EmptyStr == [id |-> "", kind |-> "str", name |-> "", x |-> 0, y |-> 0]

\* Part.get_str of a primitive: one markup fragment carrying its fields.
\* nums holds the texts of its numbers: x and y, written with {:.5f}.
PieceStr(p) ==
    [tag |-> p.kind, name |-> p.name, x |-> p.x, y |-> p.y, of |-> p.id,
     nums |-> <<Fixed5(p.x, 0), Fixed5(p.y, 0)>>]

(***************************************************************************)
(* A Python dict: its entries in the order their keys were first inserted. *)
(* d[k] = v  on a key already present replaces the value in place.         *)
(***************************************************************************)
DictHas(d, k) == \E i \in 1..Len(d) : d[i].key = k

DictGet(d, k) == d[CHOOSE i \in 1..Len(d) : d[i].key = k]

DictSet(d, k, idx, piece) ==
    LET e == [key |-> k, idx |-> idx, piece |-> piece]
    IN  IF DictHas(d, k)
        THEN [i \in 1..Len(d) |-> IF d[i].key = k THEN e ELSE d[i]]
        ELSE Append(d, e)

(***************************************************************************)
(* LibraryPackage.                                                         *)
(***************************************************************************)
\* add_piece: piece_dict[piece.name] = (len(piece_dict), piece)
AddPieceDict(d, piece) == DictSet(d, piece.name, Len(d), piece)

\* A lookup that answers an absent name with a placeholder, as dict.get
\* with a default would.
GetPieceDefault(d, name) ==
    IF DictHas(d, name) THEN Returned(<<DictGet(d, name).piece>>)
    ELSE Returned(<<EmptyStr>>)

\* get_piece: piece_dict[name][1], a KeyError when the name is absent.
GetPiece(d, name) ==
    IF DictHas(d, name) THEN Returned(<<DictGet(d, name).piece>>)
    ELSE KeyError(name)

GetPieceX(d, name) ==
    IF GetPiece(d, name).exc = "none" THEN Returned(<<GetPiece(d, name).val[1].x>>)
    ELSE GetPiece(d, name)

GetPieceY(d, name) ==
    IF GetPiece(d, name).exc = "none" THEN Returned(<<GetPiece(d, name).val[1].y>>)
    ELSE GetPiece(d, name)

\* The first loop of get_str: pieces_sort[pieces[i][0]] = pieces[i][1] for
\* i = 0 .. len-1, from entry i on; an index past the end is an IndexError.
RECURSIVE SortPieces(_, _, _)
SortPieces(d, i, sorted) ==
    IF i > Len(d) THEN Returned(sorted)
    ELSE IF d[i].idx + 1 > Len(sorted) THEN Raised("IndexError")
    ELSE SortPieces(d, i + 1, [sorted EXCEPT ![d[i].idx + 1] = d[i].piece])

\* The second loop of get_str: out += p.get_str(); '' has no get_str.
RECURSIVE EmitPieces(_, _, _)
EmitPieces(sorted, i, out) ==
    IF i > Len(sorted) THEN Returned(out)
    ELSE IF sorted[i] = EmptyStr THEN Raised("AttributeError")
    ELSE EmitPieces(sorted, i + 1, Append(out, PieceStr(sorted[i])))

PkgOpen(p, version) == [tag |-> "package", name |-> p, x |-> version, y |-> 0, of |-> p]
PkgClose(p) == [tag |-> "/package", name |-> p, x |-> 0, y |-> 0, of |-> p]

\* LibraryPackage.get_str of package p.
PkgGetStr(p) ==
    IF library[p] = None THEN Raised("AttributeError")
    ELSE LET d == piece_dict[p]
             sorted == SortPieces(d, 1, [i \in 1..Len(d) |-> EmptyStr])
             body == EmitPieces(sorted.val, 1, <<PkgOpen(p, LibVersion(library[p]))>>)
         IN  IF sorted.exc # "none" THEN sorted
             ELSE IF body.exc # "none" THEN body
             ELSE Returned(Append(body.val, PkgClose(p)))

PieceNames == {p.name : p \in Pieces} \cup {"9"}

\* The pieces added to package p so far, oldest first.
RECURSIVE AddedTo(_, _)
AddedTo(p, h) ==
    IF h = <<>> THEN <<>>
    ELSE LET rest == AddedTo(p, SubSeq(h, 1, Len(h) - 1))
             last == h[Len(h)]
         IN  IF last.op = "add_piece" /\ last.target = p
             THEN Append(rest, PieceById(last.arg)) ELSE rest

AddPiece(p, piece) ==
    /\ Len(AddedTo(p, hist)) < MaxPieces
    /\ piece_dict' = [piece_dict EXCEPT ![p] = AddPieceDict(piece_dict[p], piece)]
    /\ call' = Call("add_piece", p, piece.id)
    /\ ret' = Returned(<<>>)
    /\ hist' = Append(hist, call')
    /\ UNCHANGED <<library, pkgFrame>>

LookupPiece(p, name) ==
    /\ call' = Call("get_piece", p, name)
    /\ ret' = GetPiece(piece_dict[p], name)
    /\ UNCHANGED <<piece_dict, library, hist, pkgFrame>>

LookupPieceX(p, name) ==
    /\ call' = Call("get_piece_x", p, name)
    /\ ret' = GetPieceX(piece_dict[p], name)
    /\ UNCHANGED <<piece_dict, library, hist, pkgFrame>>

LookupPieceY(p, name) ==
    /\ call' = Call("get_piece_y", p, name)
    /\ ret' = GetPieceY(piece_dict[p], name)
    /\ UNCHANGED <<piece_dict, library, hist, pkgFrame>>

LookupPieces(p) ==
    /\ call' = Call("get_pieces", p, None)
    /\ ret' = Returned(piece_dict[p])
    /\ UNCHANGED <<piece_dict, library, hist, pkgFrame>>

PackageGetStr(p) ==
    /\ call' = Call("get_str", p, None)
    /\ ret' = PkgGetStr(p)
    /\ UNCHANGED <<piece_dict, library, hist, pkgFrame>>

(***************************************************************************)
(* SpecPkg: one package, attached to a library, that pieces are added to   *)
(* and looked up in.                                                       *)
(***************************************************************************)
InitPkg ==
    /\ piece_dict = [p \in Packages |-> <<>>]
    /\ library = [p \in Packages |-> IF p = "P1" THEN "L1" ELSE None]
    /\ call = NoCall
    /\ ret = Returned(<<>>)
    /\ hist = <<>>
    /\ padObj = NoPad
    /\ elemObj = [e \in Elems |-> NoElem]
    /\ sigObj = [g \in Sigs |-> NoSig]
    /\ packages = [l \in Libraries |-> <<>>]
    /\ plain = <<>>
    /\ libraries = <<>>
    /\ elements = <<>>
    /\ signals = <<>>

NextPkg ==
    \/ \E piece \in Pieces : AddPiece("P1", piece)
    \/ \E name \in PieceNames : LookupPiece("P1", name)
    \/ \E name \in PieceNames : LookupPieceX("P1", name)
    \/ \E name \in PieceNames : LookupPieceY("P1", name)
    \/ LookupPieces("P1")
    \/ PackageGetStr("P1")

SpecPkg == InitPkg /\ [][NextPkg]_vars

(***************************************************************************)
(* C1: after any add_piece calls, interleaved with any lookups, get_str    *)
(* emits every added primitive exactly once, in the order added.           *)
(***************************************************************************)
PkgBody(out) == SubSeq(out, 2, Len(out) - 1)

StrsOf(pieces) == [i \in 1..Len(pieces) |-> PieceStr(pieces[i])]

C1_OrderStable ==
    (call.op = "get_str" /\ call.target = "P1") =>
        /\ ret.exc = "none"
        /\ PkgBody(ret.val) = StrsOf(AddedTo("P1", hist))

\* What the code does keep: when the added primitives have pairwise distinct
\* names, get_str emits them all in the order added.
DistinctNames(pieces) ==
    \A i, j \in 1..Len(pieces) : i # j => pieces[i].name # pieces[j].name

C1_OrderStableDistinct ==
    (call.op = "get_str" /\ call.target = "P1" /\ DistinctNames(AddedTo("P1", hist))) =>
        /\ ret.exc = "none"
        /\ PkgBody(ret.val) = StrsOf(AddedTo("P1", hist))

(***************************************************************************)
(* Pad.  padObj holds the private attributes the property setters store.   *)
(* The class body defines  stop  twice: the second definition, made with   *)
(* @first.setter, rebinds the name  stop  to a property whose getter is    *)
(* first's getter and whose setter stores _first; the name  first  keeps a *)
(* property with a getter only.  The attribute _stop is never stored.      *)
(***************************************************************************)
YesNo(b) == IF b THEN "yes" ELSE "no"

\* A setter that also refuses 0, as its message "must be > 0" would have it.
DiameterRejectedZero(diameter) == diameter <= 0

\* The diameter setter: a negative value raises, any other is stored.
DiameterRejected(diameter) == diameter < 0

\* A constructor that stores its argument  first  as well.
PadInitStoresFirst(diameter, thermals, stop, first) ==
    [made |-> TRUE, diameter |-> diameter, thermals |-> thermals, first |-> first]

\* Pad.__init__: the setters run in the order diameter, thermals, stop; the
\* argument  first  is not used.
PadInit(diameter, thermals, stop, first) ==
    [made |-> TRUE, diameter |-> diameter, thermals |-> thermals, first |-> stop]

\* Pad.get_str: thermals, stop and first are read through their getters.
PadGetStr(pad) ==
    [tag |-> "pad", diameter |-> pad.diameter, thermals |-> YesNo(pad.thermals),
     stop |-> YesNo(pad.first), first |-> YesNo(pad.first),
     nums |-> <<Fixed5(pad.diameter, 0)>>]

NewPad(diameter, thermals, stop, first) ==
    /\ call' = [op |-> "Pad", target |-> None, arg |-> diameter,
                thermals |-> thermals, stop |-> stop, first |-> first]
    /\ IF DiameterRejected(diameter)
       THEN /\ ret' = Raised("ValueError")
            /\ UNCHANGED padObj
       ELSE /\ ret' = Returned(<<>>)
            /\ padObj' = PadInit(diameter, thermals, stop, first)
    /\ UNCHANGED padFrame

SetDiameter(diameter) ==
    /\ padObj.made
    /\ call' = Call("set_diameter", None, diameter)
    /\ IF DiameterRejected(diameter)
       THEN /\ ret' = Raised("ValueError")
            /\ UNCHANGED padObj
       ELSE /\ ret' = Returned(<<>>)
            /\ padObj' = [padObj EXCEPT !.diameter = diameter]
    /\ UNCHANGED padFrame

SetThermals(b) ==
    /\ padObj.made
    /\ call' = [op |-> "set_thermals", target |-> None, arg |-> 0, thermals |-> b]
    /\ ret' = Returned(<<>>)
    /\ padObj' = [padObj EXCEPT !.thermals = b]
    /\ UNCHANGED padFrame

SetStop(b) ==
    /\ padObj.made
    /\ call' = [op |-> "set_stop", target |-> None, arg |-> 0, stop |-> b]
    /\ ret' = Returned(<<>>)
    /\ padObj' = [padObj EXCEPT !.first = b]
    /\ UNCHANGED padFrame

\* pad.first = b: the property  first  has a getter only.
SetFirst(b) ==
    /\ padObj.made
    /\ call' = [op |-> "set_first", target |-> None, arg |-> 0, first |-> b]
    /\ ret' = Raised("AttributeError")
    /\ UNCHANGED <<padObj, padFrame>>

PadStr ==
    /\ padObj.made
    /\ call' = Call("pad_get_str", None, 0)
    /\ ret' = Returned(<<PadGetStr(padObj)>>)
    /\ UNCHANGED <<padObj, padFrame>>

(***************************************************************************)
(* SpecPad: one Pad, constructed and reassigned.                           *)
(***************************************************************************)
Diameters == (0 - MaxDiameter)..MaxDiameter

InitPad ==
    /\ piece_dict = [p \in Packages |-> <<>>]
    /\ library = [p \in Packages |-> None]
    /\ call = NoCall
    /\ ret = Returned(<<>>)
    /\ hist = <<>>
    /\ padObj = NoPad
    /\ elemObj = [e \in Elems |-> NoElem]
    /\ sigObj = [g \in Sigs |-> NoSig]
    /\ packages = [l \in Libraries |-> <<>>]
    /\ plain = <<>>
    /\ libraries = <<>>
    /\ elements = <<>>
    /\ signals = <<>>

NextPad ==
    \/ \E d \in Diameters, t, s, f \in BOOLEAN : NewPad(d, t, s, f)
    \/ \E d \in Diameters : SetDiameter(d)
    \/ \E b \in BOOLEAN : SetThermals(b)
    \/ \E b \in BOOLEAN : SetStop(b)
    \/ \E b \in BOOLEAN : SetFirst(b)
    \/ PadStr

SpecPad == InitPad /\ [][NextPad]_vars

(***************************************************************************)
(* C8: constructing a Pad, or assigning its diameter, raises ValueError    *)
(* exactly when the diameter is negative; a diameter >= 0, 0 included, is  *)
(* stored; a failed assignment leaves the stored diameter as it was; the   *)
(* stored diameter is never negative.                                      *)
(***************************************************************************)
C8_Step ==
    call'.op \in {"Pad", "set_diameter"} =>
        /\ (ret'.exc = "ValueError") <=> (call'.arg < 0)
        /\ (ret'.exc = "none") <=> (call'.arg >= 0)
        /\ ret'.exc = "none" => padObj'.made /\ padObj'.diameter = call'.arg
        /\ ret'.exc # "none" => padObj' = padObj

FP(w, t) == [w |-> w, t |-> t]

Abs(n) == IF n < 0 THEN 0 - n ELSE n

RECURSIVE Pow2(_)
Pow2(n) == IF n <= 0 THEN 1 ELSE 2 * Pow2(n - 1)

\* floor(log2 n) for n >= 1.
RECURSIVE Log2Floor(_)
Log2Floor(n) == IF n <= 1 THEN 0 ELSE 1 + Log2Floor(n \div 2)

\* The binade of |w + t * 2^-64|, w # 0: a residue of the other sign takes
\* a power of two into the binade below.
Binade(w, t) ==
    IF t = 0 \/ (t > 0) = (w > 0) THEN Log2Floor(Abs(w))
    ELSE IF Abs(w) = 1 THEN 0 - 1
    ELSE Log2Floor(Abs(w) - 1)

Ulp(j) == Pow2(j + 12)

\* t rounded to the nearest multiple of ulp, a tie to the even multiple.
RoundEven(t, ulp) ==
    LET q == t \div ulp
        r == t % ulp
    IN  IF 2 * r < ulp THEN q * ulp
        ELSE IF 2 * r > ulp THEN (q + 1) * ulp
        ELSE IF q % 2 = 0 THEN q * ulp
        ELSE (q + 1) * ulp

\* a + b, rounded to a double.
FAdd(a, b) ==
    LET w == a.w + b.w
        t == a.t + b.t
    IN  IF w = 0 \/ t = 0 THEN FP(w, t)
        ELSE FP(w, RoundEven(t, Ulp(Binade(w, t))))

FSub(a, b) == FAdd(a, FP(0 - b.w, 0 - b.t))

\* a * n for an integer n.
FMul(a, n) == FP(a.w * n, a.t * n)

\* numpy.cos(rotation*pi/180) and numpy.sin(rotation*pi/180): pi is a
\* double, so cos(90*pi/180) = 6.123e-17, sin(180*pi/180) = 1.225e-16 and
\* cos(270*pi/180) = -1.837e-16, here to the nearest 2^-64.
CosDeg(rotation) ==
    CASE rotation = 0 -> FP(1, 0)
      [] rotation = 90 -> FP(0, 1130)
      [] rotation = 180 -> FP(0 - 1, 0)
      [] rotation = 270 -> FP(0, 0 - 3389)

SinDeg(rotation) ==
    CASE rotation = 0 -> FP(0, 0)
      [] rotation = 90 -> FP(1, 0)
      [] rotation = 180 -> FP(0, 2259)
      [] rotation = 270 -> FP(0 - 1, 0)

(***************************************************************************)
(* Element.                                                                *)
(***************************************************************************)
LibName(l) == l

LibUrn(l) == IF l = "L1" THEN "urn:L1" ELSE "urn:L2"

\* Element.__init__: the library name and urn are read from the package's
\* library when the element is made; a package in no library has none.
ElementInit(name, package, x, y, rotation, mirror) ==
    [made |-> TRUE, name |-> name, package |-> package, package_name |-> package,
     library |-> LibName(library[package]), library_urn |-> LibUrn(library[package]),
     x |-> x, y |-> y, rotation |-> rotation, mirror |-> mirror]

\* Element.get_pad_x: x + cos*piece_x - sin*piece_y, left to right.
GetPadX(el, pad_name) ==
    LET d == piece_dict[el.package]
    IN  IF GetPiece(d, pad_name).exc # "none" THEN GetPiece(d, pad_name)
        ELSE Returned(<<FSub(FAdd(FP(el.x, 0),
                                  FMul(CosDeg(el.rotation), GetPieceX(d, pad_name).val[1])),
                             FMul(SinDeg(el.rotation), GetPieceY(d, pad_name).val[1]))>>)

\* Element.get_pad_y: y + sin*piece_x + cos*piece_y, left to right.
GetPadY(el, pad_name) ==
    LET d == piece_dict[el.package]
    IN  IF GetPiece(d, pad_name).exc # "none" THEN GetPiece(d, pad_name)
        ELSE Returned(<<FAdd(FAdd(FP(el.y, 0),
                                  FMul(SinDeg(el.rotation), GetPieceX(d, pad_name).val[1])),
                             FMul(CosDeg(el.rotation), GetPieceY(d, pad_name).val[1]))>>)

NewElement(e, package, x, y, rotation, mirror) ==
    /\ call' = Call("Element", e, package)
    /\ IF library[package] = None
       THEN /\ ret' = Raised("AttributeError")
            /\ UNCHANGED elemObj
       ELSE /\ ret' = Returned(<<>>)
            /\ elemObj' = [elemObj EXCEPT ![e] = ElementInit(e, package, x, y, rotation, mirror)]
    /\ UNCHANGED <<sigObj, geomFrame>>

SetMirror(e, b) ==
    /\ elemObj[e].made
    /\ call' = Call("set_mirror", e, None)
    /\ ret' = Returned(<<>>)
    /\ elemObj' = [elemObj EXCEPT ![e].mirror = b]
    /\ UNCHANGED <<sigObj, geomFrame>>

PadX(e, pad_name) ==
    /\ elemObj[e].made
    /\ call' = Call("get_pad_x", e, pad_name)
    /\ ret' = GetPadX(elemObj[e], pad_name)
    /\ UNCHANGED <<elemObj, sigObj, geomFrame>>

PadY(e, pad_name) ==
    /\ elemObj[e].made
    /\ call' = Call("get_pad_y", e, pad_name)
    /\ ret' = GetPadY(elemObj[e], pad_name)
    /\ UNCHANGED <<elemObj, sigObj, geomFrame>>

(***************************************************************************)
(* SpecGeom: a package with one pad "1" at a local offset, and an element  *)
(* of that package placed and asked for the pad's position.                *)
(***************************************************************************)
Coords == ((0 - MaxCoord)..MaxCoord) \cup {10}
Offsets == (0 - MaxOffset)..MaxOffset
Rotations == {0, 90, 180, 270}

InitGeom ==
    /\ \E px, py \in Offsets :
          piece_dict = [p \in Packages |->
                          IF p = "P1" THEN AddPieceDict(<<>>, Pad("pad1", "1", px, py))
                          ELSE <<>>]
    /\ library = [p \in Packages |-> IF p = "P1" THEN "L1" ELSE None]
    /\ call = NoCall
    /\ ret = Returned(<<>>)
    /\ hist = <<>>
    /\ padObj = NoPad
    /\ elemObj = [e \in Elems |-> NoElem]
    /\ sigObj = [g \in Sigs |-> NoSig]
    /\ packages = [l \in Libraries |-> <<>>]
    /\ plain = <<>>
    /\ libraries = <<>>
    /\ elements = <<>>
    /\ signals = <<>>

NextGeom ==
    \/ \E pkg \in Packages, x, y \in Coords, r \in Rotations, m \in BOOLEAN :
          ~elemObj["E1"].made /\ NewElement("E1", pkg, x, y, r, m)
    \/ \E b \in BOOLEAN : SetMirror("E1", b)
    \/ \E name \in {"1", "9"} : PadX("E1", name)
    \/ \E name \in {"1", "9"} : PadY("E1", name)

SpecGeom == InitGeom /\ [][NextGeom]_vars

(***************************************************************************)
(* C2: for rotation theta in {0, 90, 180, 270}, any mirror flag and a pad  *)
(* at local (px, py), (get_pad_x, get_pad_y) is exactly                    *)
(* (x + px*cos - py*sin, y + px*sin + py*cos).                             *)
(***************************************************************************)
ExactCos(rotation) ==
    CASE rotation = 0 -> 1 [] rotation = 90 -> 0 [] rotation = 180 -> 0 - 1 [] rotation = 270 -> 0

ExactSin(rotation) ==
    CASE rotation = 0 -> 0 [] rotation = 90 -> 1 [] rotation = 180 -> 0 [] rotation = 270 -> 0 - 1

ThePad(e) == DictGet(piece_dict[elemObj[e].package], call.arg).piece

C2_ExactRotation ==
    (call.op \in {"get_pad_x", "get_pad_y"} /\ ret.exc = "none") =>
        LET el == elemObj[call.target]
            pd == ThePad(call.target)
            c == ExactCos(el.rotation)
            n == ExactSin(el.rotation)
        IN  ret.val[1] = IF call.op = "get_pad_x"
                         THEN FP(el.x + pd.x * c - pd.y * n, 0)
                         ELSE FP(el.y + pd.x * n + pd.y * c, 0)

\* The cases of the claim the code does meet: rotation 0 is exact, and the
\* pad at local (1, 0) of an element at (10, 10) turned by 90 is at (10, 11).
C2_Rotation0Exact ==
    (call.op \in {"get_pad_x", "get_pad_y"} /\ ret.exc = "none"
        /\ elemObj[call.target].rotation = 0) =>
        LET el == elemObj[call.target]
            pd == ThePad(call.target)
        IN  ret.val[1] = IF call.op = "get_pad_x" THEN FP(el.x + pd.x, 0)
                         ELSE FP(el.y + pd.y, 0)

C2_Example ==
    (call.op \in {"get_pad_x", "get_pad_y"} /\ ret.exc = "none"
        /\ elemObj[call.target].rotation = 90
        /\ elemObj[call.target].x = 10 /\ elemObj[call.target].y = 10
        /\ ThePad(call.target).x = 1 /\ ThePad(call.target).y = 0) =>
        ret.val[1] = IF call.op = "get_pad_x" THEN FP(10, 0) ELSE FP(11, 0)

(***************************************************************************)
(* Signal.                                                                 *)
(***************************************************************************)
Contact(e, pad) == [e |-> e, pad |-> pad]

\* Signal.__init__: elems = [(elem1,pad1),(elem2,pad2)] + elems.
SignalInit(name, c1, c2, layer, more) ==
    [made |-> TRUE, name |-> name, elems |-> <<c1, c2>> \o more, layer |-> layer]

SigOpen(sig) == [tag |-> "signal", name |-> sig.name]
SigClose(sig) == [tag |-> "/signal", name |-> sig.name]

\* '<contactref element="{}" pad="{}"/>' of contact c: e[0].name, e[1].
ContactRef(c) == [tag |-> "contactref", element |-> elemObj[c.e].name, pad |-> c.pad]

\* The first loop of Signal.get_str: one contactref per contact, in order.
RECURSIVE SigContactRefs(_, _, _)
SigContactRefs(sig, i, out) ==
    IF i > Len(sig.elems) THEN out
    ELSE SigContactRefs(sig, i + 1, Append(out, ContactRef(sig.elems[i])))

\* The wire a mutated loop would draw: from contact i+1 back to itself.
SigWireSelf(sig, i) ==
    LET b == sig.elems[i + 1]
    IN  [tag |-> "wire", fmt |-> "{}",
         x1 |-> GetPadX(elemObj[b.e], b.pad), y1 |-> GetPadY(elemObj[b.e], b.pad),
         x2 |-> GetPadX(elemObj[b.e], b.pad), y2 |-> GetPadY(elemObj[b.e], b.pad),
         width |-> "0", layer |-> sig.layer, nums |-> <<>>]

\* The texts of the numbers of a wire: the four coordinates as "{}" writes
\* them, and the width, the literal 0.
WireNums(x1, y1, x2, y2) ==
    IF x1.exc # "none" \/ y1.exc # "none" \/ x2.exc # "none" \/ y2.exc # "none"
    THEN <<>>
    ELSE <<StrFloat(x1.val[1].w, x1.val[1].t), StrFloat(y1.val[1].w, y1.val[1].t),
           StrFloat(x2.val[1].w, x2.val[1].t), StrFloat(y2.val[1].w, y2.val[1].t),
           <<"0">>>>

\* The wire of loop index i (Python's i, 1 <= i < len): from elems[i-1] to
\* elems[i], that is from contact i to contact i+1 counting from 1; the
\* coordinates are written with "{}", the width is the literal "0".
SigWire(sig, i) ==
    LET a == sig.elems[i]
        b == sig.elems[i + 1]
    IN  [tag |-> "wire", fmt |-> "{}",
         x1 |-> GetPadX(elemObj[a.e], a.pad), y1 |-> GetPadY(elemObj[a.e], a.pad),
         x2 |-> GetPadX(elemObj[b.e], b.pad), y2 |-> GetPadY(elemObj[b.e], b.pad),
         width |-> "0", layer |-> sig.layer,
         nums |-> WireNums(GetPadX(elemObj[a.e], a.pad), GetPadY(elemObj[a.e], a.pad),
                           GetPadX(elemObj[b.e], b.pad), GetPadY(elemObj[b.e], b.pad))]

WireRaises(w) ==
    \/ w.x1.exc # "none" \/ w.y1.exc # "none"
    \/ w.x2.exc # "none" \/ w.y2.exc # "none"

\* The arguments of format are evaluated left to right: what the wire
\* raises is what the first of x1, y1, x2, y2 to fail raised.
WireError(w) ==
    IF w.x1.exc # "none" THEN w.x1
    ELSE IF w.y1.exc # "none" THEN w.y1
    ELSE IF w.x2.exc # "none" THEN w.x2
    ELSE w.y2

\* The second loop of Signal.get_str: for i in range(1, len(elems)); a pad
\* name that the element's package lacks raises KeyError.
RECURSIVE SigWires(_, _, _)
SigWires(sig, i, out) ==
    IF i >= Len(sig.elems) THEN Returned(out)
    ELSE IF WireRaises(SigWire(sig, i)) THEN WireError(SigWire(sig, i))
    ELSE SigWires(sig, i + 1, Append(out, SigWire(sig, i)))

\* Signal.get_str.
SigGetStr(sig) ==
    LET wires == SigWires(sig, 1, SigContactRefs(sig, 1, <<SigOpen(sig)>>))
    IN  IF wires.exc # "none" THEN wires
        ELSE Returned(Append(wires.val, SigClose(sig)))

NewSignal(g, c1, c2, layer, more) ==
    /\ call' = Call("Signal", g, None)
    /\ ret' = Returned(<<>>)
    /\ sigObj' = [sigObj EXCEPT ![g] = SignalInit(g, c1, c2, layer, more)]
    /\ UNCHANGED <<elemObj, geomFrame>>

SignalGetStr(g) ==
    /\ sigObj[g].made
    /\ call' = Call("sig_get_str", g, None)
    /\ ret' = SigGetStr(sigObj[g])
    /\ UNCHANGED <<elemObj, sigObj, geomFrame>>

(***************************************************************************)
(* SpecSig: three placed elements of a package with pads "1" and "2", and  *)
(* a signal made over their pads and serialised.                           *)
(***************************************************************************)
TwoPads == AddPieceDict(AddPieceDict(<<>>, Pad("padA", "1", 1, 0)), Pad("padB", "2", 0, 1))

PlacedElems ==
    [e \in Elems |->
        [made |-> TRUE, name |-> e, package |-> "P1", package_name |-> "P1",
         library |-> "L1", library_urn |-> "urn:L1",
         x |-> IF e = "E1" THEN 0 ELSE IF e = "E2" THEN 10 ELSE 5,
         y |-> IF e = "E1" THEN 0 ELSE IF e = "E2" THEN 10 ELSE 0 - 3,
         rotation |-> IF e = "E1" THEN 0 ELSE IF e = "E2" THEN 90 ELSE 180,
         mirror |-> e = "E3"]]

Contacts == {Contact(e, pad) : e \in Elems, pad \in {"1", "2", "9"}}

\* The sequences over S of length 0 .. n.
RECURSIVE SeqsUpTo(_, _)
SeqsUpTo(S, n) ==
    IF n = 0 THEN {<<>>}
    ELSE SeqsUpTo(S, n - 1) \cup
         {Append(q, x) : q \in {r \in SeqsUpTo(S, n - 1) : Len(r) = n - 1}, x \in S}

Layers == {1, 16}

InitSig ==
    /\ piece_dict = [p \in Packages |-> IF p = "P1" THEN TwoPads ELSE <<>>]
    /\ library = [p \in Packages |-> IF p = "P1" THEN "L1" ELSE None]
    /\ call = NoCall
    /\ ret = Returned(<<>>)
    /\ hist = <<>>
    /\ padObj = NoPad
    /\ elemObj = PlacedElems
    /\ sigObj = [g \in Sigs |-> NoSig]
    /\ packages = [l \in Libraries |-> <<>>]
    /\ plain = <<>>
    /\ libraries = <<>>
    /\ elements = <<>>
    /\ signals = <<>>

NextSig ==
    \/ \E c1, c2 \in Contacts, layer \in Layers, more \in SeqsUpTo(Contacts, MaxContacts - 2) :
          ~sigObj["S1"].made /\ NewSignal("S1", c1, c2, layer, more)
    \/ SignalGetStr("S1")

SpecSig == InitSig /\ [][NextSig]_vars

(***************************************************************************)
(* C3: a Signal with k >= 2 contacts whose pads all exist serialises to k  *)
(* contact references in the contacts' order, then k-1 connector segments, *)
(* the i-th from the pad position of contact i to that of contact i+1,     *)
(* each of width 0 and on the signal's layer.                              *)
(***************************************************************************)
PadExists(c) == DictHas(piece_dict[elemObj[c.e].package], c.pad)

PadsExist(sig) == \A i \in 1..Len(sig.elems) : PadExists(sig.elems[i])

PadPos(c) == <<GetPadX(elemObj[c.e], c.pad), GetPadY(elemObj[c.e], c.pad)>>

C3_SignalSegments ==
    (call.op = "sig_get_str" /\ PadsExist(sigObj[call.target])) =>
        LET sig == sigObj[call.target]
            k == Len(sig.elems)
            out == ret.val
        IN  /\ ret.exc = "none"
            /\ k >= 2
            /\ Len(out) = 1 + k + (k - 1) + 1
            /\ \A i \in 1..k :
                  /\ out[1 + i].tag = "contactref"
                  /\ out[1 + i].element = sig.elems[i].e
                  /\ out[1 + i].pad = sig.elems[i].pad
            /\ \A i \in 1..(k - 1) :
                  /\ out[1 + k + i].tag = "wire"
                  /\ <<out[1 + k + i].x1, out[1 + k + i].y1>> = PadPos(sig.elems[i])
                  /\ <<out[1 + k + i].x2, out[1 + k + i].y2>> = PadPos(sig.elems[i + 1])
                  /\ out[1 + k + i].width = "0"
                  /\ out[1 + k + i].layer = sig.layer

C3_Witness ==
    /\ call.op = "sig_get_str"
    /\ ret.exc = "none"
    /\ Len(sigObj["S1"].elems) = 3
    /\ sigObj["S1"].elems[1].e = "E1"
    /\ sigObj["S1"].elems[2].e = "E2"
    /\ sigObj["S1"].elems[3].e = "E3"
    /\ Len(ret.val) = 7

(***************************************************************************)
(* Library and BrdFile.  An argument of an add operation is any object of  *)
(* the run; TypeOf is Python's type(arg).                                  *)
(***************************************************************************)
PlainIds == {"holeA", "holeB"}

Args == Packages \cup Libraries \cup {"E1", "E2"} \cup Sigs \cup PlainIds

TypeOf(arg) ==
    IF arg \in Packages THEN "LibraryPackage"
    ELSE IF arg \in Libraries THEN "Library"
    ELSE IF arg \in Elems THEN "Element"
    ELSE IF arg \in Sigs THEN "Signal"
    ELSE "Hole"

\* A check that lets every type through.
AnyType(arg, type) == TRUE

\* "type(arg) is T": the guard of add_package, add_library, add_element and
\* add_signal.
TypeIs(arg, type) == TypeOf(arg) = type

\* The concatenation of the sequences of results rs, from the i-th on, onto
\* out; the first result that raised is what the whole raises.
RECURSIVE ConcatStrs(_, _, _)
ConcatStrs(rs, i, out) ==
    IF i > Len(rs) THEN Returned(out)
    ELSE IF rs[i].exc # "none" THEN rs[i]
    ELSE ConcatStrs(rs, i + 1, out \o rs[i].val)

Tag(t) == [tag |-> t]

\* Library.get_str: the library tag, <packages>, each package in list order.
LibGetStr(l) ==
    LET body == ConcatStrs([i \in 1..Len(packages[l]) |-> PkgGetStr(packages[l][i])], 1,
                           <<[tag |-> "library", name |-> LibName(l), urn |-> LibUrn(l)],
                             Tag("packages")>>)
    IN  IF body.exc # "none" THEN body
        ELSE Returned(body.val \o <<Tag("/packages"), Tag("/library")>>)

\* Element.get_str: M before the rotation when the element is mirrored.
ElemGetStr(el) ==
    [tag |-> "element", name |-> el.name, library |-> el.library,
     library_urn |-> el.library_urn, package |-> el.package_name,
     x |-> el.x, y |-> el.y, rot |-> <<IF el.mirror THEN "M" ELSE "", "R", el.rotation>>,
     nums |-> <<Fixed5(el.x, 0), Fixed5(el.y, 0), Fixed5(el.rotation, 0)>>]

\* BrdFile.get_end: output is built up line by line, then assigned anew at
\* '</board>', which drops the lines built before it.
GetEnd ==
    LET o1 == <<Tag("mfgpreviewcolors")>>
        o2 == o1 \o <<[tag |-> "mfgpreviewcolor", name |-> "soldermaskcolor"]>>
        o3 == o2 \o <<[tag |-> "mfgpreviewcolor", name |-> "silkscreencolor"]>>
        o4 == o3 \o <<[tag |-> "mfgpreviewcolor", name |-> "backgroundcolor"]>>
        o5 == o4 \o <<[tag |-> "mfgpreviewcolor", name |-> "coppercolor"]>>
        o6 == o5 \o <<[tag |-> "mfgpreviewcolor", name |-> "substratecolor"]>>
        o7 == o6 \o <<Tag("/mfgpreviewcolors")>>
        o8 == <<Tag("/board")>>
        o9 == o8 \o <<Tag("/drawing")>>
    IN  o9 \o <<Tag("/eagle")>>

\* The blocks of make_brd; the files layers.xml, connector_library.xml and
\* brd_attributes.xml are read whole and are one fragment each.
PlainBlock(out) ==
    ConcatStrs([i \in 1..Len(plain) |-> Returned(<<PieceStr(PieceById(plain[i]))>>)], 1,
               out \o <<Tag("plain")>>)

LibrariesBlock(out) ==
    ConcatStrs([i \in 1..Len(libraries) |-> LibGetStr(libraries[i])], 1,
               out \o <<Tag("/plain"), Tag("libraries"), Tag("connector_library.xml")>>)

ElementsBlock(out) ==
    ConcatStrs([i \in 1..Len(elements) |-> Returned(<<ElemGetStr(elemObj[elements[i]])>>)], 1,
               out \o <<Tag("/libraries"), Tag("brd_attributes.xml"), Tag("elements")>>)

SignalsBlock(out) ==
    ConcatStrs([i \in 1..Len(signals) |-> SigGetStr(sigObj[signals[i]])], 1,
               out \o <<Tag("/elements"), Tag("signals")>>)

\* make_brd with the elements written before the libraries.
MakeBrdElementsFirst ==
    LET b1 == PlainBlock(<<Tag("header"), Tag("layers.xml"), Tag("board")>>)
        b2 == ConcatStrs([i \in 1..Len(elements) |-> Returned(<<ElemGetStr(elemObj[elements[i]])>>)],
                         1, b1.val \o <<Tag("/plain"), Tag("elements")>>)
        b3 == ConcatStrs([i \in 1..Len(libraries) |-> LibGetStr(libraries[i])], 1,
                         b2.val \o <<Tag("/elements"), Tag("libraries"), Tag("connector_library.xml")>>)
        b4 == ConcatStrs([i \in 1..Len(signals) |-> SigGetStr(sigObj[signals[i]])], 1,
                         b3.val \o <<Tag("/libraries"), Tag("brd_attributes.xml"), Tag("signals")>>)
    IN  IF b3.exc # "none" THEN b3
        ELSE IF b4.exc # "none" THEN b4
        ELSE Returned(b4.val \o <<Tag("/signals")>> \o GetEnd)

\* BrdFile.make_brd.
MakeBrdDoc ==
    LET b1 == PlainBlock(<<Tag("header"), Tag("layers.xml"), Tag("board")>>)
        b2 == LibrariesBlock(b1.val)
        b3 == ElementsBlock(b2.val)
        b4 == SignalsBlock(b3.val)
    IN  IF b1.exc # "none" THEN b1
        ELSE IF b2.exc # "none" THEN b2
        ELSE IF b3.exc # "none" THEN b3
        ELSE IF b4.exc # "none" THEN b4
        ELSE Returned(b4.val \o <<Tag("/signals")>> \o GetEnd)

\* The add calls made on the board and its libraries so far.
Adds ==
    Len(plain) + Len(libraries) + Len(elements) + Len(signals)
        + Len(packages["L1"]) + Len(packages["L2"])

AddPackage(l, arg) ==
    /\ Adds < MaxAdds
    /\ call' = Call("add_package", l, arg)
    /\ IF TypeIs(arg, "LibraryPackage")
       THEN /\ ret' = Returned(<<>>)
            /\ library' = [library EXCEPT ![arg] = l]
            /\ packages' = [packages EXCEPT ![l] = Append(@, arg)]
       ELSE /\ ret' = Raised("ValueError")
            /\ UNCHANGED <<library, packages>>
    /\ UNCHANGED <<plain, libraries, elements, signals, brdFrame>>

AddSignal(arg) ==
    /\ Adds < MaxAdds
    /\ call' = Call("add_signal", None, arg)
    /\ IF TypeIs(arg, "Signal")
       THEN /\ ret' = Returned(<<>>)
            /\ signals' = Append(signals, arg)
       ELSE /\ ret' = Raised("ValueError")
            /\ UNCHANGED signals
    /\ UNCHANGED <<library, packages, plain, libraries, elements, brdFrame>>

AddLibrary(arg) ==
    /\ Adds < MaxAdds
    /\ call' = Call("add_library", None, arg)
    /\ IF TypeIs(arg, "Library")
       THEN /\ ret' = Returned(<<>>)
            /\ libraries' = Append(libraries, arg)
       ELSE /\ ret' = Raised("ValueError")
            /\ UNCHANGED libraries
    /\ UNCHANGED <<library, packages, plain, elements, signals, brdFrame>>

AddElement(arg) ==
    /\ Adds < MaxAdds
    /\ call' = Call("add_element", None, arg)
    /\ IF TypeIs(arg, "Element")
       THEN /\ ret' = Returned(<<>>)
            /\ elements' = Append(elements, arg)
       ELSE /\ ret' = Raised("ValueError")
            /\ UNCHANGED elements
    /\ UNCHANGED <<library, packages, plain, libraries, signals, brdFrame>>

\* add_plain checks nothing.
AddPlain(arg) ==
    /\ Adds < MaxAdds
    /\ call' = Call("add_plain", None, arg)
    /\ ret' = Returned(<<>>)
    /\ plain' = Append(plain, arg)
    /\ UNCHANGED <<library, packages, libraries, elements, signals, brdFrame>>

MakeBrd ==
    /\ call' = Call("make_brd", None, None)
    /\ ret' = MakeBrdDoc
    /\ UNCHANGED <<library, brdVars, brdFrame>>

(***************************************************************************)
(* Spec: a board and two libraries.  The package P1, with pads "1" and     *)
(* "2", is in no library list yet but was made with library L1; P2 is      *)
(* empty and in no library.  The elements are placed instances of P1, the  *)
(* signals S1 and S2 run over pads that exist, S3 names a pad "9" that P1  *)
(* lacks.                                                                  *)
(***************************************************************************)
BoardSignals ==
    [g \in Sigs |->
        IF g = "S1" THEN SignalInit(g, Contact("E1", "1"), Contact("E2", "2"), 1, <<>>)
        ELSE IF g = "S2"
        THEN SignalInit(g, Contact("E2", "1"), Contact("E3", "2"), 16, <<Contact("E1", "2")>>)
        ELSE SignalInit(g, Contact("E1", "1"), Contact("E2", "9"), 1, <<>>)]

Init ==
    /\ piece_dict = [p \in Packages |-> IF p = "P1" THEN TwoPads ELSE <<>>]
    /\ library = [p \in Packages |-> IF p = "P1" THEN "L1" ELSE None]
    /\ call = NoCall
    /\ ret = Returned(<<>>)
    /\ hist = <<>>
    /\ padObj = NoPad
    /\ elemObj = PlacedElems
    /\ sigObj = BoardSignals
    /\ packages = [l \in Libraries |-> <<>>]
    /\ plain = <<>>
    /\ libraries = <<>>
    /\ elements = <<>>
    /\ signals = <<>>

Next ==
    \/ \E l \in Libraries, arg \in Args : AddPackage(l, arg)
    \/ \E arg \in Args : AddSignal(arg)
    \/ \E arg \in Args : AddLibrary(arg)
    \/ \E arg \in Args : AddElement(arg)
    \/ \E arg \in PlainIds : AddPlain(arg)
    \/ MakeBrd

Spec == Init /\ [][Next]_vars

(***************************************************************************)
(* C4: make_brd emits the blocks in the order plain, libraries, elements,  *)
(* signals, and within each block the items in the order they were added   *)
(* to that collection, however the add calls were interleaved: every add   *)
(* appends to its own collection and touches no other, and make_brd writes *)
(* each collection front to back between its block's markers.              *)
(***************************************************************************)
Pos(doc, t) == CHOOSE i \in 1..Len(doc) : doc[i].tag = t

Between(doc, t1, t2) == SubSeq(doc, Pos(doc, t1) + 1, Pos(doc, t2) - 1)

\* The fragments of block whose tag is t, in their order.
RECURSIVE Tagged(_, _)
Tagged(block, t) ==
    IF block = <<>> THEN <<>>
    ELSE IF Head(block).tag = t THEN <<Head(block)>> \o Tagged(Tail(block), t)
    ELSE Tagged(Tail(block), t)

Markers == <<"plain", "/plain", "libraries", "/libraries", "elements", "/elements",
             "signals", "/signals">>

C4_DocOrder ==
    (call.op = "make_brd" /\ ret.exc = "none") =>
        LET doc == ret.val
            libs == Tagged(Between(doc, "libraries", "/libraries"), "library")
            sigs == Tagged(Between(doc, "signals", "/signals"), "signal")
        IN  /\ \A m \in 1..Len(Markers) :
                  Cardinality({i \in 1..Len(doc) : doc[i].tag = Markers[m]}) = 1
            /\ \A m \in 1..(Len(Markers) - 1) : Pos(doc, Markers[m]) < Pos(doc, Markers[m + 1])
            /\ Between(doc, "plain", "/plain")
                  = [i \in 1..Len(plain) |-> PieceStr(PieceById(plain[i]))]
            /\ Between(doc, "elements", "/elements")
                  = [i \in 1..Len(elements) |-> ElemGetStr(elemObj[elements[i]])]
            /\ [i \in 1..Len(libs) |-> libs[i].name] = libraries
            /\ [i \in 1..Len(sigs) |-> sigs[i].name] = signals
            /\ \A i \in 1..Len(doc) :
                  /\ doc[i].tag = "library" =>
                        Pos(doc, "libraries") < i /\ i < Pos(doc, "/libraries")
                  /\ doc[i].tag = "signal" =>
                        Pos(doc, "signals") < i /\ i < Pos(doc, "/signals")

Grows(old, new, op) ==
    \/ new = old
    \/ /\ call'.op = op
       /\ ret'.exc = "none"
       /\ new = Append(old, call'.arg)

C4_AddAppends ==
    /\ Grows(plain, plain', "add_plain")
    /\ Grows(libraries, libraries', "add_library")
    /\ Grows(elements, elements', "add_element")
    /\ Grows(signals, signals', "add_signal")
    /\ (call'.op \in {"add_plain", "add_library", "add_element", "add_signal"}
          /\ ret'.exc = "none") =>
          Len(plain') + Len(libraries') + Len(elements') + Len(signals')
             = Len(plain) + Len(libraries) + Len(elements) + Len(signals) + 1

C4_EmissionOrder == [](C4_DocOrder) /\ [][C4_AddAppends]_vars

\* A board whose adds were interleaved: two elements with another add made
\* between them, all written.
C4_Witness ==
    /\ call.op = "make_brd"
    /\ ret.exc = "none"
    /\ Len(elements) = 2
    /\ elements[1] # elements[2]
    /\ Len(plain) + Len(libraries) + Len(signals) = 1

(***************************************************************************)
(* C7: every package is in the package list of at most one library, and    *)
(* that library is the one its back-reference names.                       *)
(***************************************************************************)
LibrariesOf(p) == {l \in Libraries : \E i \in 1..Len(packages[l]) : packages[l][i] = p}

C7_OneLibrary ==
    \A p \in Packages :
        /\ Cardinality(LibrariesOf(p)) <= 1
        /\ \A l \in LibrariesOf(p) : library[p] = l

(***************************************************************************)
(* C9: add_package, add_library, add_element and add_signal called with an *)
(* argument of the wrong type raise ValueError and leave every collection  *)
(* and every back-reference as it was; called with one of the right type   *)
(* they append that one item at the end of the target collection.          *)
(***************************************************************************)
Required(op) ==
    IF op = "add_package" THEN "LibraryPackage"
    ELSE IF op = "add_library" THEN "Library"
    ELSE IF op = "add_element" THEN "Element"
    ELSE "Signal"

\* The board's and the libraries' collections, keyed by the add operation and
\* its target.
Collections(pk, ls, es, ss) ==
    [k \in {"add_package/L1", "add_package/L2", "add_library", "add_element", "add_signal"} |->
        IF k = "add_package/L1" THEN pk["L1"]
        ELSE IF k = "add_package/L2" THEN pk["L2"]
        ELSE IF k = "add_library" THEN ls
        ELSE IF k = "add_element" THEN es
        ELSE ss]

KeyOf(c) == IF c.op = "add_package" THEN IF c.target = "L1" THEN "add_package/L1"
                                          ELSE "add_package/L2"
            ELSE c.op

C9_Step ==
    call'.op \in {"add_package", "add_library", "add_element", "add_signal"} =>
        LET before == Collections(packages, libraries, elements, signals)
            after == Collections(packages', libraries', elements', signals')
        IN  IF TypeOf(call'.arg) # Required(call'.op)
            THEN /\ ret'.exc = "ValueError"
                 /\ after = before
                 /\ plain' = plain
                 /\ library' = library
            ELSE /\ ret'.exc = "none"
                 /\ after = [before EXCEPT ![KeyOf(call')] = Append(@, call'.arg)]
                 /\ plain' = plain

C9_TypeCheckedAdds == [][C9_Step]_vars

C9_Witness ==
    /\ call.op = "add_package"
    /\ TypeOf(call.arg) = "Library"
    /\ ret.exc = "ValueError"
    /\ Len(libraries) = 1
    /\ Len(packages[call.target]) = 1

(***************************************************************************)
(* C10: the document of make_brd ends with a footer that holds the         *)
(* mfgpreviewcolors entries, after the signals block.                      *)
(***************************************************************************)
C10_FooterColors ==
    (call.op = "make_brd" /\ ret.exc = "none") =>
        \E i \in 1..Len(ret.val) :
            /\ i > Pos(ret.val, "/signals")
            /\ ret.val[i].tag = "mfgpreviewcolors"

(***************************************************************************)
(* BrdFile.make_bom.  The file written is the sequence of rows handed to   *)
(* the csv writer; a string built by ', '.join is the sequence of its      *)
(* parts.                                                                  *)
(***************************************************************************)
Title == "board"

\* The characters of a file name.
Chars(fname) ==
    CASE fname = "bom.csv" -> <<"b", "o", "m", ".", "c", "s", "v">>
      [] fname = "bom.txt" -> <<"b", "o", "m", ".", "t", "x", "t">>
      [] fname = ".csv" -> <<".", "c", "s", "v">>
      [] fname = "csv" -> <<"c", "s", "v">>
      [] fname = "b.csvx" -> <<"b", ".", "c", "s", "v", "x">>

Fnames == {"bom.csv", "bom.txt", ".csv", "csv", "b.csvx"}

\* fname[-4:]: the last four characters, or all of a shorter name.
LastFour(chars) ==
    SubSeq(chars, IF Len(chars) > 4 THEN Len(chars) - 3 ELSE 1, Len(chars))

BadExtension(fname) == LastFour(Chars(fname)) # <<".", "c", "s", "v">>

InSeq(x, q) == \E i \in 1..Len(q) : q[i] = x

\* The first pass: the package names of the elements es from the i-th on,
\* each appended to unique_packages when first seen.
RECURSIVE UniquePackages(_, _, _)
UniquePackages(es, i, unique_packages) ==
    IF i > Len(es) THEN unique_packages
    ELSE UniquePackages(es, i + 1,
            IF InSeq(elemObj[es[i]].package_name, unique_packages) THEN unique_packages
            ELSE Append(unique_packages, elemObj[es[i]].package_name))

\* A second pass that puts each element in front of its bucket.
RECURSIVE BucketReversed(_, _, _, _)
BucketReversed(es, i, package_name, bucket) ==
    IF i > Len(es) THEN bucket
    ELSE BucketReversed(es, i + 1, package_name,
            IF elemObj[es[i]].package_name = package_name THEN <<es[i]>> \o bucket
            ELSE bucket)

\* The second pass, for one key of elem_map: the elements of es from the
\* i-th on whose package name is the key, each appended to its bucket.
RECURSIVE Bucket(_, _, _, _)
Bucket(es, i, package_name, bucket) ==
    IF i > Len(es) THEN bucket
    ELSE Bucket(es, i + 1, package_name,
            IF elemObj[es[i]].package_name = package_name THEN Append(bucket, es[i])
            ELSE bucket)

\* ', '.join(names) from the i-th name on.
RECURSIVE Join(_, _, _)
Join(names, i, out) ==
    IF i > Len(names) THEN out
    ELSE Join(names, i + 1, IF i = 1 THEN <<names[i]>> ELSE out \o <<", ", names[i]>>)

\* The row of unique_packages[i] (Python's i is one less).
BomRow(unique_packages, i) ==
    LET bucket == Bucket(elements, 1, unique_packages[i], <<>>)
    IN  [kind |-> "data", item |-> i, qty |-> Len(bucket),
         refdes |-> Join([k \in 1..Len(bucket) |-> elemObj[bucket[k]].name], 1, <<>>),
         manufacturer |-> "", part |-> "", description |-> "",
         package |-> unique_packages[i],
         leads |-> Len(piece_dict[elemObj[bucket[1]].package]),
         inventory |-> ""]

\* A preamble that writes a heading row whether or not a heading is given.
BomPreambleAlways(heading) ==
    <<[kind |-> "title", text |-> Title], [kind |-> "heading", text |-> heading],
      [kind |-> "blank", text |-> ""], [kind |-> "columns", text |-> "Item #"]>>

\* The rows before the data: the title, the heading if one is given, an
\* empty row, the column names.
BomPreamble(heading) ==
    <<[kind |-> "title", text |-> Title]>>
        \o (IF heading # None THEN <<[kind |-> "heading", text |-> heading]>> ELSE <<>>)
        \o <<[kind |-> "blank", text |-> ""], [kind |-> "columns", text |-> "Item #"]>>

\* make_bom(fname, heading).
MakeBomRows(fname, heading) ==
    IF BadExtension(fname) THEN Raised("ValueError")
    ELSE LET unique_packages == UniquePackages(elements, 1, <<>>)
         IN  Returned(BomPreamble(heading)
                        \o [i \in 1..Len(unique_packages) |-> BomRow(unique_packages, i)])

MakeBom(fname, heading) ==
    /\ call' = Call("make_bom", heading, fname)
    /\ ret' = MakeBomRows(fname, heading)
    /\ UNCHANGED <<library, brdVars, brdFrame>>

(***************************************************************************)
(* SpecBom: a board that elements of the packages P1 and P2 are added to   *)
(* and whose bill of materials is written.  Each package was made with its *)
(* library, so that elements of it can be made.                            *)
(***************************************************************************)
Headings == {None, "Project 3"}

InitBom ==
    /\ piece_dict = [p \in Packages |->
                        IF p = "P1" THEN TwoPads
                        ELSE AddPieceDict(<<>>, Pad("padC", "1", 2, 0))]
    /\ library = [p \in Packages |-> IF p = "P1" THEN "L1" ELSE "L2"]
    /\ call = NoCall
    /\ ret = Returned(<<>>)
    /\ hist = <<>>
    /\ padObj = NoPad
    /\ \E of \in [Elems -> Packages] :
          elemObj = [e \in Elems |-> ElementInit(e, of[e], 0, 0, 0, FALSE)]
    /\ sigObj = [g \in Sigs |-> NoSig]
    /\ packages = [l \in Libraries |-> <<>>]
    /\ plain = <<>>
    /\ libraries = <<>>
    /\ elements = <<>>
    /\ signals = <<>>

NextBom ==
    \/ \E arg \in Elems : AddElement(arg)
    \/ \E fname \in Fnames, heading \in Headings : MakeBom(fname, heading)

SpecBom == InitBom /\ [][NextBom]_vars

(***************************************************************************)
(* C5: make_bom writes one data row per distinct package name, in the      *)
(* order the names are first seen in the element list, numbered 1, 2, ..., *)
(* n; a row's quantity is the number of elements of that package name, its *)
(* reference field their names joined by ", " in list order; the           *)
(* quantities sum to the number of elements.                               *)
(***************************************************************************)
RECURSIVE DataRows(_)
DataRows(rows) ==
    IF rows = <<>> THEN <<>>
    ELSE IF Head(rows).kind = "data" THEN <<Head(rows)>> \o DataRows(Tail(rows))
    ELSE DataRows(Tail(rows))

PackageNameAt(k) == elemObj[elements[k]].package_name

IndexesOf(package_name) == {k \in 1..Len(elements) : PackageNameAt(k) = package_name}

Min(S) == CHOOSE m \in S : \A k \in S : m <= k

\* The r-th smallest member of S.
Nth(S, r) == CHOOSE m \in S : Cardinality({k \in S : k < m}) = r - 1

RECURSIVE SumQty(_)
SumQty(rows) == IF rows = <<>> THEN 0 ELSE Head(rows).qty + SumQty(Tail(rows))

C5_BomGrouping ==
    (call.op = "make_bom" /\ ret.exc = "none") =>
        LET rows == DataRows(ret.val)
            n == Len(rows)
        IN  /\ {rows[i].package : i \in 1..n} = {PackageNameAt(k) : k \in 1..Len(elements)}
            /\ \A i, j \in 1..n :
                  i < j => Min(IndexesOf(rows[i].package)) < Min(IndexesOf(rows[j].package))
            /\ \A i \in 1..n :
                  LET idx == IndexesOf(rows[i].package)
                      q == Cardinality(idx)
                  IN  /\ rows[i].item = i
                      /\ rows[i].qty = q
                      /\ Len(rows[i].refdes) = 2 * q - 1
                      /\ \A r \in 1..q :
                            rows[i].refdes[2 * r - 1] = elemObj[elements[Nth(idx, r)]].name
                      /\ \A r \in 1..(q - 1) : rows[i].refdes[2 * r] = ", "
            /\ SumQty(rows) = Len(elements)

\* Two elements of one package around an element of another: two rows, the
\* first of quantity 2.
C5_Witness ==
    /\ call.op = "make_bom"
    /\ ret.exc = "none"
    /\ Len(elements) = 3
    /\ PackageNameAt(1) = PackageNameAt(3)
    /\ PackageNameAt(1) # PackageNameAt(2)
    /\ elements[1] # elements[3]
    /\ Len(DataRows(ret.val)) = 2
    /\ DataRows(ret.val)[1].qty = 2

(***************************************************************************)
(* C6: make_bom called with only a destination name ending in .csv         *)
(* succeeds and writes 4 rows plus one row per distinct package.           *)
(***************************************************************************)
DistinctPackages == Cardinality({PackageNameAt(k) : k \in 1..Len(elements)})

C6_FourRows ==
    (call.op = "make_bom" /\ call.arg = "bom.csv" /\ call.target = None) =>
        /\ ret.exc = "none"
        /\ Len(ret.val) = 4 + DistinctPackages

\* C6 as amended: with only a destination name ending in .csv, make_bom
\* succeeds and writes 3 rows (title, blank, column names) plus one row per
\* distinct package; the fourth row is there only when a heading is passed.
C6_ThreeRows ==
    (call.op = "make_bom" /\ ~BadExtension(call.arg)) =>
        /\ ret.exc = "none"
        /\ call.target = None => Len(ret.val) = 3 + DistinctPackages
        /\ call.target # None => Len(ret.val) = 4 + DistinctPackages

C6_Witness ==
    /\ call.op = "make_bom"
    /\ call.arg = "bom.csv"
    /\ call.target = None
    /\ ret.exc = "none"
    /\ DistinctPackages = 2
    /\ Len(ret.val) = 5

(***************************************************************************)
(* C11: every coordinate or dimension written into the document of         *)
(* make_brd (holes, pads, element positions and rotations, the wires       *)
(* inside a signal) has the fixed form of {:.5f}: an optional minus sign,  *)
(* digits, a point, and exactly five digits.                               *)
(***************************************************************************)
IsDigit(c) == \E d \in 1..Len(DigitChars) : DigitChars[d] = c

IsFixed5(text) ==
    LET n == Len(text)
    IN  /\ n >= 7
        /\ text[n - 5] = "."
        /\ \A k \in (n - 4)..n : IsDigit(text[k])
        /\ IsDigit(text[n - 6])
        /\ \A k \in 1..(n - 7) : IsDigit(text[k]) \/ (k = 1 /\ text[k] = "-")

NumsFixed5(frag) ==
    "nums" \in DOMAIN frag => \A n \in 1..Len(frag.nums) : IsFixed5(frag.nums[n])

C11_FixedFiveDecimals ==
    (call.op = "make_brd" /\ ret.exc = "none") =>
        \A i \in 1..Len(ret.val) : NumsFixed5(ret.val[i])

\* What the code does meet: every fragment but the wires of a signal.
C11_AllButSignalWires ==
    (call.op = "make_brd" /\ ret.exc = "none") =>
        \A i \in 1..Len(ret.val) : ret.val[i].tag # "wire" => NumsFixed5(ret.val[i])

(***************************************************************************)
(* SpecLazy: the placed elements of SpecSig, a signal made over pads that  *)
(* exist ("1") or that the package lacks ("9"), added to the board, and    *)
(* the calls that read pad positions: get_pad_x, get_pad_y, the signal's   *)
(* get_str and make_brd.                                                   *)
(***************************************************************************)
LazyContacts == {Contact(e, pad) : e \in {"E1", "E2"}, pad \in {"1", "9"}}

NextLazy ==
    \/ \E c1, c2 \in LazyContacts, more \in SeqsUpTo(LazyContacts, MaxContacts - 2) :
          ~sigObj["S1"].made /\ NewSignal("S1", c1, c2, 1, more)
    \/ \E arg \in {"S1", "E1"} : sigObj["S1"].made /\ AddSignal(arg)
    \/ \E e \in {"E1", "E2"}, name \in {"1", "9"} : PadX(e, name)
    \/ \E e \in {"E1", "E2"}, name \in {"1", "9"} : PadY(e, name)
    \/ SignalGetStr("S1")
    \/ MakeBrd

SpecLazy == InitSig /\ [][NextLazy]_vars

(***************************************************************************)
(* C12: pad names are checked lazily.  Making a Signal, and adding it to   *)
(* the board, succeeds whether or not its contacts' pads exist.            *)
(* get_pad_x and get_pad_y raise KeyError, naming the pad, exactly when    *)
(* the element's package lacks the pad; the get_str of a signal, and       *)
(* make_brd of a board holding it, raise KeyError naming a pad of the      *)
(* signal that is absent, exactly when the signal has such a pad.          *)
(***************************************************************************)
\* ret is the KeyError of a contact of sig whose pad is absent.
AbsentPadError(sig) ==
    \E i \in 1..Len(sig.elems) :
        ~PadExists(sig.elems[i]) /\ ret = KeyError(sig.elems[i].pad)

C12_Access ==
    /\ call.op \in {"get_pad_x", "get_pad_y"} =>
          IF PadExists(Contact(call.target, call.arg)) THEN ret.exc = "none"
          ELSE ret = KeyError(call.arg)
    /\ call.op = "sig_get_str" =>
          IF PadsExist(sigObj[call.target]) THEN ret.exc = "none"
          ELSE AbsentPadError(sigObj[call.target])
    /\ call.op = "make_brd" =>
          IF \A i \in 1..Len(signals) : PadsExist(sigObj[signals[i]]) THEN ret.exc = "none"
          ELSE \E i \in 1..Len(signals) : AbsentPadError(sigObj[signals[i]])

C12_Step ==
    /\ call'.op = "Signal" =>
          /\ ret'.exc = "none"
          /\ sigObj'[call'.target].made
          /\ Len(sigObj'[call'.target].elems) >= 2
    /\ (call'.op = "add_signal" /\ TypeOf(call'.arg) = "Signal") =>
          /\ ret'.exc = "none"
          /\ signals' = Append(signals, call'.arg)

C12_LazyPadCheck == [](C12_Access) /\ [][C12_Step]_vars

\* A signal naming the absent pad "9" was made and added, and make_brd
\* raised the KeyError of that pad.
C12_Witness ==
    /\ call.op = "make_brd"
    /\ ret = KeyError("9")
    /\ signals = <<"S1">>
    /\ sigObj["S1"].made
    /\ ~PadsExist(sigObj["S1"])

(***************************************************************************)
(* C13: in the document of make_brd, the library name and the library urn  *)
(* of every element are those of the library that the element's package    *)
(* refers to now, also after add_package gave the package to another       *)
(* library.                                                                *)
(***************************************************************************)
C13_ElementLibraryCurrent ==
    (call.op = "make_brd" /\ ret.exc = "none") =>
        \A i \in 1..Len(ret.val) :
            ret.val[i].tag = "element" =>
                LET pkg == elemObj[ret.val[i].name].package
                IN  /\ ret.val[i].library = LibName(library[pkg])
                    /\ ret.val[i].library_urn = LibUrn(library[pkg])

\* What the code does meet: the names hold as long as no add_package has
\* given the package to a library other than the one it was made with.
C13_ElementLibraryUnmoved ==
    (call.op = "make_brd" /\ ret.exc = "none" /\ Len(packages["L2"]) = 0) =>
        \A i \in 1..Len(ret.val) :
            ret.val[i].tag = "element" =>
                LET pkg == elemObj[ret.val[i].name].package
                IN  /\ ret.val[i].library = LibName(library[pkg])
                    /\ ret.val[i].library_urn = LibUrn(library[pkg])

(***************************************************************************)
(* C14: the stop token a Pad emits is "yes" exactly when the last value    *)
(* given for stop, to the constructor or by a later assignment, was true;  *)
(* the first token it emits equals its stop token; the constructor's       *)
(* argument  first  has no effect on the fragment.                         *)
(***************************************************************************)
\* The value the emitted tokens are read from is the last one given for
\* stop: the constructor and an assignment to stop store it, nothing else
\* changes it, and the fragment of a new Pad is fixed by its other arguments.
C14_Step ==
    /\ (call'.op = "Pad" /\ ret'.exc = "none") =>
          /\ padObj'.first = call'.stop
          /\ PadGetStr(padObj') =
                [tag |-> "pad", diameter |-> call'.arg,
                 thermals |-> YesNo(call'.thermals),
                 stop |-> YesNo(call'.stop), first |-> YesNo(call'.stop),
                 nums |-> <<Fixed5(call'.arg, 0)>>]
    /\ call'.op = "set_stop" => ret'.exc = "none" /\ padObj'.first = call'.stop
    /\ (padObj.made /\ call'.op # "set_stop" /\ ~(call'.op = "Pad" /\ ret'.exc = "none")) =>
          padObj'.first = padObj.first

C14_Emitted ==
    call.op = "pad_get_str" =>
        /\ ret.exc = "none"
        /\ ret.val[1].stop = (IF padObj.first THEN "yes" ELSE "no")
        /\ ret.val[1].first = ret.val[1].stop

C14_StopFirstTokens == [](C14_Emitted) /\ [][C14_Step]_vars

\* A Pad made with stop false and first true: the fragment it emits has
\* both tokens "no".
C14_Witness ==
    /\ call.op = "Pad"
    /\ ret.exc = "none"
    /\ call.stop = FALSE
    /\ call.first = TRUE
    /\ PadGetStr(padObj).stop = "no"
    /\ PadGetStr(padObj).first = "no"

====
